---- MODULE Spec2Model ----
(***************************************************************************)
(* Model of the chat server: the per-IP rate limiter (checkRateLimit), the *)
(* in-memory storage (MemStorage) and the HTTP handlers of registerRoutes. *)
(*                                                                         *)
(* SpecLimiter drives checkRateLimit alone, with an explicit clock and an  *)
(* explicit limit argument.  Spec drives the HTTP handlers, the async      *)
(* POST /api/chat handler being split at each of its await points.  Spec   *)
(* keeps one POST /api/chat in flight at a time (Serial); the reading and   *)
(* deleting endpoints interleave with it at every await, the creation of   *)
(* a chat and the setting of the limit are taken between two requests.     *)
(*                                                                         *)
(* SpecAdmin drives checkRateLimit with the global limit and the admin     *)
(* endpoint that sets it.  SpecStore drives MemStorage under the reading   *)
(* and the admin endpoints.  SpecShape applies the request shaping of      *)
(* POST /api/chat to bounded inputs.  SpecProviders drives the client's    *)
(* provider list kept in localStorage.                                     *)
(*                                                                         *)
(* SpecBlocked drives checkRateLimit with limits of zero and below.        *)
(* SpecLimitValue drives the admin endpoint with limits that are not whole *)
(* numbers.  SpecTurns runs two POST /api/chat requests of one client at   *)
(* once: an await of a storage method continues in a microtask, before any *)
(* other request or endpoint runs (Pending), so requests interleave only   *)
(* at the vendor call and at the reading of its body.  SpecPaths runs one  *)
(* request at a time through every exit of the handler, and FairPaths adds *)
(* the fairness of the handler's continuation.                             *)
(***************************************************************************)
EXTENDS Integers, Sequences, FiniteSets, TLC

VARIABLES
    rateLimitMap,     \* Map<string, {count, resetTime}>: a function on the keys present
    globalRateLimit,  \* let globalRateLimit
    now,              \* Date.now(), in milliseconds
    ticks,            \* number of clock advances so far (bounds the model)
    ncalls,           \* number of direct checkRateLimit calls so far (bounds the model)
    last,             \* history: the most recent direct checkRateLimit call
    winCalls,         \* history: per key, calls made in the key's current window
    winLimits,        \* history: per key, limit arguments used in the current window
    admitLog,         \* history: per key, <<time, limit>> of the calls admitted in the
                      \* 60 seconds up to the key's latest admitted call
    chats,            \* MemStorage.chats: the Map's values in insertion order
    messages,         \* MemStorage.messages: the Map's values in insertion order
    nextId,           \* number of ids drawn by randomUUID() so far
    reqs,             \* per slot, the POST /api/chat request being handled there
    nreqs,            \* number of POST /api/chat requests received (bounds the model)
    nops,             \* number of other endpoint calls and clock advances (bounds the model)
    event,            \* history: what the latest step answered or deleted, if anything
    localStorage,     \* the browser's localStorage: the provider lists kept by the client
    loadedApiKeys,    \* the client's loadedApiKeys, with its flag keysLoaded
    limitTenths,      \* globalRateLimit is a JavaScript number: its tenths, when it is
                      \* not whole (the number is globalRateLimit + limitTenths / 10)
    admitted,         \* history: per key, POST /api/chat requests admitted in the key's
                      \* current window
    started           \* history: per key, fetch calls started during the key's current
                      \* window

limiterHistory == <<ncalls, last, winCalls, winLimits, admitLog>>

storageVars == <<chats, messages, nextId>>

gatewayVars == <<chats, messages, nextId, reqs, nreqs, nops, event>>

vars == <<rateLimitMap, globalRateLimit, now, ticks, ncalls, last, winCalls,
          winLimits, admitLog, chats, messages, nextId, reqs, nreqs, nops, event,
          localStorage, loadedApiKeys, limitTenths, admitted, started>>

turnHistory == <<admitted, started>>

clientVars == <<localStorage, loadedApiKeys>>

----------------------------------------------------------------------------
(* Bounds of the model *)

MaxTicks == 3
MaxCalls == 4
MaxRequests == 2
MaxOps == 3

(* Program constants *)

Window == 60000
DefaultRateLimit == 3

Clients == {"ipA", "ipB"}
Limits == {0, 1, 2}
Steps == {1, Window - 1}

----------------------------------------------------------------------------
(* checkRateLimit *)

\* Mutant of FreshEntry: the window is not added to the reset time.
FreshEntry_NoWindow(t) == [count |-> 1, resetTime |-> t]

\* rateLimitMap.set(ip, { count: 1, resetTime: now + 60000 })
FreshEntry(t) == [count |-> 1, resetTime |-> t + Window]

\* !userLimit || now > userLimit.resetTime
WindowExpired(map, ip, t) ==
    \/ ip \notin DOMAIN map
    \/ t > map[ip].resetTime

\* Mutant of OverLimit: a limit that is not positive means no limit.
OverLimit_Positive(userLimit, limit) == limit > 0 /\ userLimit.count >= limit

\* Mutant of OverLimit: the comparison is strict.
OverLimit_Strict(userLimit, limit) == userLimit.count > limit

\* userLimit.count >= limit
OverLimit(userLimit, limit) == userLimit.count >= limit

\* The value returned by checkRateLimit(ip, limit) called at time t.
checkRateLimit(map, ip, limit, t) ==
    IF WindowExpired(map, ip, t) THEN TRUE
    ELSE IF OverLimit(map[ip], limit) THEN FALSE
    ELSE TRUE

\* Mutant of RejectedMap: a rejected call is counted.
RejectedMap_Counted(map, ip) == [map EXCEPT ![ip].count = @ + 1]

\* The map a rejected call leaves behind: nothing is written.
RejectedMap(map, ip) == map

\* Mutant of CountedMap: the increment is lost.
CountedMap_Lost(map, ip) == map

\* userLimit.count++
CountedMap(map, ip) == [map EXCEPT ![ip].count = @ + 1]

\* Mutant of checkRateLimitMap: a call that opens a window sweeps the entries of
\* the other keys whose window has passed.
checkRateLimitMap_Sweep(map, ip, limit, t) ==
    IF WindowExpired(map, ip, t)
    THEN [k \in {k2 \in DOMAIN map : t <= map[k2].resetTime} \cup {ip} |->
             IF k = ip THEN FreshEntry(t) ELSE map[k]]
    ELSE IF OverLimit(map[ip], limit) THEN map
    ELSE [map EXCEPT ![ip].count = @ + 1]

\* rateLimitMap after checkRateLimit(ip, limit) called at time t.
checkRateLimitMap(map, ip, limit, t) ==
    IF WindowExpired(map, ip, t)
    THEN [k \in DOMAIN map \cup {ip} |-> IF k = ip THEN FreshEntry(t) ELSE map[k]]
    ELSE IF OverLimit(map[ip], limit) THEN RejectedMap(map, ip)
    ELSE CountedMap(map, ip)

----------------------------------------------------------------------------
(* MemStorage *)

\* JavaScript's undefined and null
Undefined == "<undefined>"
Null == "<null>"

\* this.chats.get(id) is defined
hasChat(cs, id) == \E i \in DOMAIN cs : cs[i].id = id

\* getChat(id): the chat record; applied only where hasChat holds
getChat(cs, id) == cs[CHOOSE i \in DOMAIN cs : cs[i].id = id]

\* createChat: this.chats.set(chat.id, chat) with createdAt = new Date().  Map.set
\* on a key that is present replaces the value where it stands.
createChat(cs, id, name, t) ==
    LET chat == [id |-> id, name |-> name, createdAt |-> t, userId |-> Null]
    IN  IF hasChat(cs, id)
        THEN [i \in DOMAIN cs |-> IF cs[i].id = id THEN chat ELSE cs[i]]
        ELSE Append(cs, chat)

\* deleteChat, first statement: this.chats.delete(id)
deleteChatChats(cs, id) == SelectSeq(cs, LAMBDA c : c.id # id)

\* Mutant of deleteChatMessages: the messages of the chat are left behind.
deleteChatMessages_NoCascade(ms, id) == ms

\* deleteChat, the rest: every message whose chatId is id is deleted
deleteChatMessages(ms, id) == SelectSeq(ms, LAMBDA m : m.chatId # id)

\* Mutant of OrNull: the model is stored as given.
OrNull_Keep(v) == v

\* insertMessage.model || null
OrNull(v) == IF v = "" \/ v = Undefined \/ v = Null THEN Null ELSE v

\* createMessage: the record stored under a fresh id
newMessage(insert, id, t) ==
    [id |-> id, chatId |-> insert.chatId, role |-> insert.role,
     content |-> insert.content, model |-> OrNull(insert.model), timestamp |-> t]

\* createMessage: this.messages.set(id, message)
createMessage(ms, insert, id, t) == Append(ms, newMessage(insert, id, t))

\* Array.prototype.sort with (a, b) => b.createdAt - a.createdAt: a stable sort,
\* here by insertion into the sorted prefix, after the elements that are not older.
RECURSIVE InsertByCreatedAt(_, _)
InsertByCreatedAt(sorted, c) ==
    IF sorted = <<>> THEN <<c>>
    ELSE IF Head(sorted).createdAt >= c.createdAt
         THEN <<Head(sorted)>> \o InsertByCreatedAt(Tail(sorted), c)
         ELSE <<c>> \o sorted

RECURSIVE SortByCreatedAt(_)
SortByCreatedAt(cs) ==
    IF cs = <<>> THEN <<>>
    ELSE InsertByCreatedAt(SortByCreatedAt(SubSeq(cs, 1, Len(cs) - 1)), cs[Len(cs)])

\* getChatsByUserId(): without a userId the filter keeps every chat
getChatsByUserId(cs) == SortByCreatedAt(cs)

\* Mutant of InsertByTimestamp: a message goes before those of its timestamp.
RECURSIVE InsertByTimestamp_Before(_, _)
InsertByTimestamp_Before(sorted, m) ==
    IF sorted = <<>> THEN <<m>>
    ELSE IF Head(sorted).timestamp < m.timestamp
         THEN <<Head(sorted)>> \o InsertByTimestamp_Before(Tail(sorted), m)
         ELSE <<m>> \o sorted

\* Array.prototype.sort with (a, b) => a.timestamp - b.timestamp: a stable sort,
\* here by insertion into the sorted prefix, after the equal elements.
RECURSIVE InsertByTimestamp(_, _)
InsertByTimestamp(sorted, m) ==
    IF sorted = <<>> THEN <<m>>
    ELSE IF Head(sorted).timestamp <= m.timestamp
         THEN <<Head(sorted)>> \o InsertByTimestamp(Tail(sorted), m)
         ELSE <<m>> \o sorted

RECURSIVE SortByTimestamp(_)
SortByTimestamp(ms) ==
    IF ms = <<>> THEN <<>>
    ELSE InsertByTimestamp(SortByTimestamp(SubSeq(ms, 1, Len(ms) - 1)), ms[Len(ms)])

\* getMessagesByChatId: filter by chatId, then sort by timestamp
getMessagesByChatId(ms, chatId) ==
    SortByTimestamp(SelectSeq(ms, LAMBDA m : m.chatId = chatId))

\* Mutant of StoreAfterRead: the messages read are taken out of the store.
StoreAfterRead_Drained(ms, chatId) == SelectSeq(ms, LAMBDA m : m.chatId # chatId)

\* getMessagesByChatId: Array.from copies the values; filter and sort act on the
\* copy, and the Map is as it was.
StoreAfterRead(ms, chatId) == ms

----------------------------------------------------------------------------
(* POST /api/chat: the request body and the vendor's answer *)

ChatIds == {"c1", "c2"}
Names == {"n1"}
Slots == {1, 2}
Serial == {1}

UserMsg == [role |-> "user", content |-> "hi"]
AssistantMsg == [role |-> "assistant", content |-> "yo"]
SystemMsg == [role |-> "system", content |-> "be brief"]

\* Request bodies: records holding the fields that are present.
Bodies ==
    {[chatId |-> "c1", messages |-> <<UserMsg>>, model |-> "m1"],
     [chatId |-> "c2", messages |-> <<UserMsg>>],
     [chatId |-> "c1", messages |-> <<UserMsg>>, model |-> ""],
     [chatId |-> "c1", messages |-> <<UserMsg, AssistantMsg>>, model |-> "m1"],
     [chatId |-> "c1", messages |-> <<UserMsg>>, model |-> "m1", provider |-> "gemini"],
     [chatId |-> "c1", messages |-> <<UserMsg>>, provider |-> "anthropic",
      endpoint |-> "https://api.anthropic.com", apiKey |-> "sk-ant"],
     [chatId |-> "c1", messages |-> <<>>],
     [chatId |-> "c1", messages |-> <<SystemMsg>>],
     [messages |-> <<UserMsg>>]}

\* chatRequestSchema.safeParse(req.body).success
SchemaValid(body) ==
    /\ "chatId" \in DOMAIN body
    /\ "messages" \in DOMAIN body
    /\ \A i \in DOMAIN body.messages : body.messages[i].role \in {"user", "assistant"}

\* A field of the body, undefined when absent
Field(body, f) == IF f \in DOMAIN body THEN body[f] ELSE Undefined

\* const { model = "gpt-5" } = validation.data
ModelOrDefault(m) == IF m = Undefined THEN "gpt-5" ELSE m

\* req.body.provider || "github"
ProviderOrDefault(p) == IF p = Undefined \/ p = "" THEN "github" ELSE p

\* messages[messages.length - 1].role; reading it throws when the list is empty
LastRole(msgs) == IF msgs = <<>> THEN Undefined ELSE msgs[Len(msgs)].role
LastContent(msgs) == IF msgs = <<>> THEN Undefined ELSE msgs[Len(msgs)].content

\* Mutant of StoresUserMessage: the user message is never stored.
StoresUserMessage_Never(role) == FALSE

\* userMessage.role === "user"
StoresUserMessage(role) == role = "user"

\* Error messages, as the set of phrases they contain
FetchFailed == {"fetch failed"}
NotJson == {"Unexpected token", "is not valid JSON"}
ReadOfUndefined == {"Cannot read properties of undefined"}
ThrowMsgs == {FetchFailed}

\* Mutant of CatchStatus: whatever is thrown is answered as a bad request.
CatchStatus_BadRequest(msg) == 400

\* The status the catch block answers with
CatchStatus(msg) ==
    IF "quota" \in msg \/ "rate limit" \in msg THEN 429
    ELSE IF "unauthorized" \in msg \/ "invalid" \in msg THEN 401
    ELSE 500

\* Statuses the vendor may answer with; Response.ok is status in 200..299
VendorStatuses == {200, 429, 500}
ResponseOk(st) == st >= 200 /\ st <= 299

\* The vendor's JSON, as the text found (or not) under each provider's path
JsonBodies ==
    {[candidates |-> Undefined, content |-> Undefined, choices |-> Undefined],
     [candidates |-> Undefined, content |-> Undefined, choices |-> "hello"],
     [candidates |-> "hello", content |-> Undefined, choices |-> Undefined],
     [candidates |-> Undefined, content |-> Undefined, choices |-> ""],
     [candidates |-> Undefined, content |-> "hello", choices |-> Undefined]}

\* The text of the vendor's answer when the status is not a success
ErrorTexts == {"", "model overloaded"}

\* Mutant of ExtractText: every provider's answer is read as OpenAI's.
ExtractText_Choices(provider, json) == json.choices

\* Parse response based on provider
ExtractText(provider, json) ==
    IF provider = "gemini" THEN json.candidates
    ELSE IF provider = "anthropic" THEN json.content
    ELSE json.choices

\* !assistantMessage
NoText(text) == text = Undefined \/ text = Null \/ text = ""

\* DEFAULT_ENDPOINTS["github"], and process.env.GITHUB_TOKEN || ""
DEFAULT_ENDPOINT_GITHUB == "https://models.inference.ai.azure.com"
GITHUB_TOKEN == "ghp"

\* req.body.endpoint || DEFAULT_ENDPOINTS["github"]
EndpointOrDefault(e) == IF e = Undefined \/ e = "" THEN DEFAULT_ENDPOINT_GITHUB ELSE e

\* req.body.apiKey || GITHUB_TOKEN
ApiKeyOrDefault(k) == IF k = Undefined \/ k = "" THEN GITHUB_TOKEN ELSE k

\* apiUrl: a template string, as the sequence of its parts
ApiUrl(provider, endpoint, apiKey, model) ==
    IF provider = "gemini"
    THEN <<endpoint, "/models/", model, ":generateContent?key=", apiKey>>
    ELSE <<endpoint, "/chat/completions">>

\* Mutant of AuthHeaders: every provider is sent a bearer token.
AuthHeaders_Bearer(provider, apiKey) == "Authorization" :> <<"Bearer ", apiKey>>

\* The headers set for the provider, Content-Type apart
AuthHeaders(provider, apiKey) ==
    IF provider = "github" \/ provider = "openai"
    THEN "Authorization" :> <<"Bearer ", apiKey>>
    ELSE IF provider = "anthropic"
    THEN ("x-api-key" :> <<apiKey>>) @@ ("anthropic-version" :> <<"2023-06-01">>)
    ELSE IF provider = "cohere" THEN "Authorization" :> <<"Bearer ", apiKey>>
    ELSE IF provider = "mistral" THEN "Authorization" :> <<"Bearer ", apiKey>>
    ELSE IF provider = "gemini" THEN <<>>
    ELSE "Authorization" :> <<"Bearer ", apiKey>>

\* messages.map(msg => ({ role: msg.role, content: msg.content }))
RoleAndContent(msgs) ==
    [i \in DOMAIN msgs |-> [role |-> msgs[i].role, content |-> msgs[i].content]]

\* requestBody
RequestBody(provider, model, msgs) ==
    LET base == [model |-> model, messages |-> RoleAndContent(msgs)]
    IN  IF provider = "github" \/ provider = "openai"
        THEN base @@ [max_completion_tokens |-> 4000]
        ELSE IF provider = "anthropic" THEN base @@ [max_tokens |-> 4000]
        ELSE IF provider = "cohere" THEN base @@ [max_tokens |-> 4000]
        ELSE IF provider = "mistral" THEN base @@ [max_tokens |-> 4000]
        ELSE IF provider = "gemini"
        THEN [contents |-> <<[parts |-> <<[text |-> msgs[Len(msgs)].content]>>]>>]
        ELSE base @@ [max_completion_tokens |-> 4000]

\* The request handed to fetch
ShapeRequest(provider, endpoint, apiKey, model, msgs) ==
    [url |-> ApiUrl(provider, endpoint, apiKey, model),
     method |-> "POST",
     headers |-> ("Content-Type" :> <<"application/json">>) @@ AuthHeaders(provider, apiKey),
     body |-> RequestBody(provider, model, msgs)]

NoRequest == [method |-> "none"]
NoReply == [error |-> "none"]

IdleReq ==
    [pc |-> "idle", ip |-> "", chatId |-> "", lastRole |-> "", content |-> "",
     reqModel |-> "", provider |-> "", valid |-> FALSE, limited |-> FALSE,
     chatFound |-> FALSE, chatDeleted |-> FALSE, fetched |-> FALSE,
     vendor |-> "none", vendorStatus |-> 0, created |-> <<>>, status |-> 0,
     messages |-> <<>>, endpoint |-> "", apiKey |-> "", outbound |-> NoRequest,
     vendorBody |-> NoReply, reply |-> NoReply, thrown |-> {}]

NoEvent == [kind |-> "none"]

InitGateway ==
    /\ chats = <<>>
    /\ messages = <<>>
    /\ nextId = 0
    /\ reqs = [s \in Slots |-> IdleReq]
    /\ nreqs = 0
    /\ nops = 0
    /\ event = NoEvent

----------------------------------------------------------------------------
(* The client's provider list (aiProviders), kept in localStorage *)

STORAGE_KEY == "chatbot-providers"
OVERRIDES_KEY == "chatbot-default-overrides"
SELECTED_PROVIDER_KEY == "chatbot-selected-provider"

\* localStorage is a function on the keys that are set.  A value written by
\* JSON.stringify and read by JSON.parse is the list or table of provider records
\* that was written: every field of a provider is a string, a number or a boolean.
setItem(ls, k, v) == [x \in DOMAIN ls \cup {k} |-> IF x = k THEN v ELSE ls[x]]
removeItem(ls, k) == [x \in DOMAIN ls \ {k} |-> ls[x]]

\* DEFAULT_GITHUB_MODELS: the first Gemini entry and the first Mistral entry
DEFAULT_GITHUB_MODELS ==
    <<[id |-> "gemini-1.5-flash", displayName |-> "Gemini 1.5 Flash",
       endpoint |-> "https://generativelanguage.googleapis.com/v1beta",
       apiKey |-> "", modelId |-> "gemini-1.5-flash", requestsPerMinute |-> 50,
       isDefault |-> TRUE, group |-> "Gemini"],
      [id |-> "mistral-small-latest", displayName |-> "Mistral Small Latest",
       endpoint |-> "https://api.mistral.ai/v1",
       apiKey |-> "", modelId |-> "mistral-small-latest", requestsPerMinute |-> 50,
       isDefault |-> TRUE, group |-> "Mistral"]>>

\* let loadedApiKeys = { gemini: "", mistral: "", github: "" }; let keysLoaded = false
NoKeys == [keysLoaded |-> FALSE, gemini |-> "", mistral |-> "", github |-> ""]

\* What GET /api/config/keys may answer with
ServerKeys == {[gemini |-> "gk", mistral |-> "mk", github |-> ""]}

\* initializeProvidersWithKeys
initializeProvidersWithKeys(keys) ==
    [i \in DOMAIN DEFAULT_GITHUB_MODELS |->
        [DEFAULT_GITHUB_MODELS[i] EXCEPT
            !.apiKey = IF DEFAULT_GITHUB_MODELS[i].group = "Gemini" THEN keys.gemini
                       ELSE keys.mistral]]

\* getCustomProviders: the stored list, [] when the key is not set
getCustomProviders(ls) == IF STORAGE_KEY \in DOMAIN ls THEN ls[STORAGE_KEY] ELSE <<>>

\* getDefaultOverrides: the stored table, {} when the key is not set
getDefaultOverrides(ls) == IF OVERRIDES_KEY \in DOMAIN ls THEN ls[OVERRIDES_KEY] ELSE <<>>

\* allProviders.reduce(...): the first provider of each id is kept
RECURSIVE uniqueProviders(_, _)
uniqueProviders(acc, rest) ==
    IF rest = <<>> THEN acc
    ELSE IF \E i \in DOMAIN acc : acc[i].id = Head(rest).id
         THEN uniqueProviders(acc, Tail(rest))
         ELSE uniqueProviders(Append(acc, Head(rest)), Tail(rest))

\* return { ...overridden, requestsPerMinute: 50 }
ForcedRate(provider) == [provider EXCEPT !.requestsPerMinute = 50]

\* getAIProviders
getAIProviders(ls, keys) ==
    LET customProviders == getCustomProviders(ls)
        defaultOverrides == getDefaultOverrides(ls)
        initializedModels == initializeProvidersWithKeys(keys)
        defaultModels ==
            [i \in DOMAIN initializedModels |->
                LET model == initializedModels[i]
                    overridden == IF model.id \in DOMAIN defaultOverrides
                                  THEN [defaultOverrides[model.id] EXCEPT
                                            !.apiKey = model.apiKey]
                                  ELSE model
                IN  ForcedRate(overridden)]
    IN  uniqueProviders(<<>>, defaultModels \o customProviders)

\* saveAIProvider: localStorage after the call
saveAIProvider(ls, provider) ==
    LET customProviders == getCustomProviders(ls)
        existing == {i \in DOMAIN customProviders : customProviders[i].id = provider.id}
        defaultOverrides == getDefaultOverrides(ls)
    IN  IF provider.isDefault
        THEN setItem(ls, OVERRIDES_KEY,
                     [x \in DOMAIN defaultOverrides \cup {provider.id} |->
                         IF x = provider.id THEN provider ELSE defaultOverrides[x]])
        ELSE IF existing # {}
        THEN LET existingIndex == CHOOSE i \in existing : \A j \in existing : i <= j
             IN  setItem(ls, STORAGE_KEY,
                         [customProviders EXCEPT ![existingIndex] = provider])
        ELSE setItem(ls, STORAGE_KEY, Append(customProviders, provider))

\* getSelectedProvider: the id of the selected provider where it is listed, else null
getSelectedProvider(ls, keys) ==
    IF SELECTED_PROVIDER_KEY \notin DOMAIN ls THEN Null
    ELSE IF \E i \in DOMAIN getAIProviders(ls, keys) :
                getAIProviders(ls, keys)[i].id = ls[SELECTED_PROVIDER_KEY]
         THEN ls[SELECTED_PROVIDER_KEY]
         ELSE Null

\* removeAIProvider: localStorage after the call.  The whole list, defaults
\* included, is written under STORAGE_KEY; the selection is looked up after that.
removeAIProvider(ls, keys, providerId) ==
    LET providers == SelectSeq(getAIProviders(ls, keys), LAMBDA q : q.id # providerId)
        written == setItem(ls, STORAGE_KEY, providers)
    IN  IF getSelectedProvider(written, keys) = providerId
        THEN removeItem(written, SELECTED_PROVIDER_KEY)
        ELSE written

\* A provider made by handleAddProvider, and the edits handleSaveProvider is given
CustomProvider ==
    [id |-> "1700000000000", displayName |-> "Mine", endpoint |-> "https://llm.example/v1",
     apiKey |-> "sk", modelId |-> "gpt-4o", requestsPerMinute |-> 60, isDefault |-> FALSE]

SavedProviders ==
    {CustomProvider,
     [CustomProvider EXCEPT !.displayName = "Mine too", !.requestsPerMinute = 30],
     [DEFAULT_GITHUB_MODELS[1] EXCEPT !.displayName = "Flash"],
     [DEFAULT_GITHUB_MODELS[1] EXCEPT !.modelId = "gemini-2.0-flash",
                                      !.requestsPerMinute = 10],
     [DEFAULT_GITHUB_MODELS[2] EXCEPT !.endpoint = "https://proxy.example/v1"]}

ProviderIds == {q.id : q \in SavedProviders}

InitClient ==
    /\ localStorage = <<>>
    /\ loadedApiKeys = NoKeys

----------------------------------------------------------------------------
(* SpecLimiter: checkRateLimit under an explicit clock *)

\* The entries of an admission log that lie less than 60 seconds before time t.
RECURSIVE Recent(_, _)
Recent(log, t) ==
    IF log = <<>> THEN <<>>
    ELSE IF t - Head(log)[1] < Window THEN log
    ELSE Recent(Tail(log), t)

NoCall == [valid |-> FALSE, ip |-> "ipA", limit |-> 0, t |-> 0, hadEntry |-> FALSE,
           prevCount |-> 0, prevReset |-> 0, allowed |-> FALSE, idx |-> 0]

InitLimiter ==
    /\ rateLimitMap = <<>>
    /\ globalRateLimit = DefaultRateLimit
    /\ now = 0
    /\ ticks = 0
    /\ ncalls = 0
    /\ last = NoCall
    /\ winCalls = [ip \in Clients |-> 0]
    /\ winLimits = [ip \in Clients |-> {}]
    /\ admitLog = [ip \in Clients |-> <<>>]
    /\ limitTenths = 0
    /\ admitted = [ip \in Clients |-> 0]
    /\ started = [ip \in Clients |-> 0]
    /\ InitGateway
    /\ InitClient

\* Date.now() is read at every call; between calls time may pass.
Tick(d) ==
    /\ ticks < MaxTicks
    /\ now' = now + d
    /\ ticks' = ticks + 1
    /\ event' = NoEvent
    /\ UNCHANGED <<limitTenths, turnHistory, localStorage, loadedApiKeys, rateLimitMap, globalRateLimit, limiterHistory,
                   chats, messages, nextId, reqs, nreqs, nops>>

CheckRateLimit(ip, limit) ==
    LET opened == WindowExpired(rateLimitMap, ip, now)
        allowed == checkRateLimit(rateLimitMap, ip, limit, now)
        had == ip \in DOMAIN rateLimitMap
    IN  /\ ncalls < MaxCalls
        /\ ncalls' = ncalls + 1
        /\ rateLimitMap' = checkRateLimitMap(rateLimitMap, ip, limit, now)
        /\ winCalls' = [winCalls EXCEPT ![ip] = IF opened THEN 1 ELSE @ + 1]
        /\ winLimits' = [winLimits EXCEPT ![ip] = IF opened THEN {limit} ELSE @ \cup {limit}]
        /\ admitLog' = [admitLog EXCEPT ![ip] =
                            IF allowed THEN Recent(Append(@, <<now, limit>>), now) ELSE @]
        /\ last' = [valid |-> TRUE, ip |-> ip, limit |-> limit, t |-> now,
                    hadEntry |-> had,
                    prevCount |-> IF had THEN rateLimitMap[ip].count ELSE 0,
                    prevReset |-> IF had THEN rateLimitMap[ip].resetTime ELSE 0,
                    allowed |-> allowed,
                    idx |-> IF opened THEN 1 ELSE winCalls[ip] + 1]
        /\ event' = NoEvent
        /\ UNCHANGED <<limitTenths, turnHistory, localStorage, loadedApiKeys, globalRateLimit, now, ticks, chats,
                       messages, nextId, reqs, nreqs, nops>>

NextLimiter ==
    \/ \E d \in Steps : Tick(d)
    \/ \E ip \in Clients, limit \in Limits : CheckRateLimit(ip, limit)

SpecLimiter == InitLimiter /\ [][NextLimiter]_vars

\* SpecBlocked: checkRateLimit called with limits that are not positive
NonPositiveLimits == {0, -1}

NextBlocked ==
    \/ \E d \in Steps : Tick(d)
    \/ \E ip \in Clients, limit \in NonPositiveLimits : CheckRateLimit(ip, limit)

SpecBlocked == InitLimiter /\ [][NextBlocked]_vars

----------------------------------------------------------------------------
(* Spec: the HTTP handlers *)

\* Mutant of Respond: the handler does not return after it has answered.
Respond_NoReturn(s, r, st) ==
    /\ reqs' = [reqs EXCEPT ![s] = [r EXCEPT !.status = st]]
    /\ event' = [kind |-> "response", slot |-> s,
                  req |-> [r EXCEPT !.pc = "done", !.status = st]]

\* res.status(st).json(...): the request is answered and its slot is free again.
Respond(s, r, st) ==
    /\ reqs' = [reqs EXCEPT ![s] = IdleReq]
    /\ event' = [kind |-> "response", slot |-> s,
                  req |-> [r EXCEPT !.pc = "done", !.status = st]]

\* The default limit as checkRateLimit compares it: count >= limit, for a whole
\* count and a limit that is not whole, is count >= the next whole number.
LimitInForce == IF limitTenths = 0 THEN globalRateLimit ELSE globalRateLimit + 1

\* Mutant of Rejected: the result of checkRateLimit is ignored.
Rejected_Never(ip) == FALSE

\* if (!checkRateLimit(clientIp))
Rejected(ip) == ~checkRateLimit(rateLimitMap, ip, LimitInForce, now)

\* Mutant of ValidationFails: the body is not validated.
ValidationFails_Never(body) == FALSE

\* if (!validation.success)
ValidationFails(body) == ~SchemaValid(body)

\* What is known of a request once its body is read: for a body that passes the
\* schema, its fields; chatFound is what storage.getChat(chatId) finds.
Arrived(ip, body) ==
    LET base == [IdleReq EXCEPT
                   !.ip = ip,
                   !.valid = SchemaValid(body),
                   !.limited = ~checkRateLimit(rateLimitMap, ip, LimitInForce, now)]
    IN  IF SchemaValid(body)
        THEN [base EXCEPT !.chatId = body.chatId,
                          !.lastRole = LastRole(body.messages),
                          !.content = LastContent(body.messages),
                          !.reqModel = Field(body, "model"),
                          !.provider = ProviderOrDefault(Field(body, "provider")),
                          !.messages = body.messages,
                          !.endpoint = EndpointOrDefault(Field(body, "endpoint")),
                          !.apiKey = ApiKeyOrDefault(Field(body, "apiKey")),
                          !.chatFound = hasChat(chats, body.chatId)]
        ELSE base

\* POST /api/chat up to its first await: the rate check, the validation and the
\* call of storage.getChat, whose lookup is made at the call.
ReceiveStep(s, ip, body) ==
    /\ reqs[s].pc = "idle"
    /\ \A s2 \in Slots : s2 < s => reqs[s2].pc # "idle"   \* the first free slot
    /\ ip = "ipB" => "ipA" \in DOMAIN rateLimitMap          \* keys in order of arrival
    /\ nreqs < MaxRequests
    /\ nreqs' = nreqs + 1
    /\ rateLimitMap' = checkRateLimitMap(rateLimitMap, ip, LimitInForce, now)
    /\ IF Rejected(ip) THEN Respond(s, Arrived(ip, body), 429)
       ELSE IF ValidationFails(body) THEN Respond(s, Arrived(ip, body), 400)
       ELSE /\ reqs' = [reqs EXCEPT ![s] = [Arrived(ip, body) EXCEPT !.pc = "getChat"]]
            /\ event' = NoEvent
    /\ UNCHANGED <<limitTenths, localStorage, loadedApiKeys, globalRateLimit, now, ticks,
                   chats, messages, nextId, nops>>

Receive(s, ip, body) ==
    ReceiveStep(s, ip, body) /\ UNCHANGED <<limiterHistory, turnHistory>>

\* Mutant of ChatMissing: the result of getChat is not looked at.
ChatMissing_Never(r) == FALSE

\* if (!chat)
ChatMissing(r) == ~r.chatFound

\* fetch(apiUrl, ...) is called: the outbound call is under way.
CallFetch(s, r) ==
    /\ reqs' = [reqs EXCEPT ![s] =
           [r EXCEPT !.pc = "fetch", !.fetched = TRUE,
                     !.outbound = ShapeRequest(r.provider, r.endpoint, r.apiKey,
                                               ModelOrDefault(r.reqModel), r.messages)]]
    /\ event' = NoEvent

\* After await storage.getChat: 404, or the user message is stored (the insertion
\* is made at the call of createMessage), or the handler goes on to the fetch.
AfterGetChatStep(s) ==
    LET r == reqs[s]
        insert == [chatId |-> r.chatId, role |-> "user", content |-> r.content,
                   model |-> Null]
    IN  /\ r.pc = "getChat"
        /\ IF ChatMissing(r)
           THEN Respond(s, r, 404) /\ UNCHANGED storageVars
           ELSE IF r.lastRole \notin {"user", "assistant"}
           THEN Respond(s, [r EXCEPT !.thrown = ReadOfUndefined], CatchStatus(ReadOfUndefined))
                /\ UNCHANGED storageVars
           ELSE IF StoresUserMessage(r.lastRole)
           THEN /\ messages' = createMessage(messages, insert, nextId + 1, now)
                /\ nextId' = nextId + 1
                /\ reqs' = [reqs EXCEPT ![s] =
                       [r EXCEPT !.pc = "createUser",
                                 !.created = Append(@, newMessage(insert, nextId + 1, now))]]
                /\ event' = NoEvent
                /\ UNCHANGED chats
           ELSE CallFetch(s, r) /\ UNCHANGED storageVars
        /\ UNCHANGED <<limitTenths, localStorage, loadedApiKeys, rateLimitMap, globalRateLimit,
                       now, ticks, limiterHistory, nreqs, nops>>

AfterGetChat(s) == AfterGetChatStep(s) /\ UNCHANGED turnHistory

\* After await storage.createMessage (user): the request is shaped and fetch called.
AfterCreateUserStep(s) ==
    /\ reqs[s].pc = "createUser"
    /\ CallFetch(s, reqs[s])
    /\ UNCHANGED <<limitTenths, localStorage, loadedApiKeys, rateLimitMap, globalRateLimit,
                   now, ticks, limiterHistory, storageVars, nreqs, nops>>

AfterCreateUser(s) == AfterCreateUserStep(s) /\ UNCHANGED turnHistory

\* await fetch(...) throws: the catch block answers.
FetchThrows(s, msg) ==
    /\ reqs[s].pc = "fetch"
    /\ Respond(s, [reqs[s] EXCEPT !.vendor = "threw", !.thrown = msg], CatchStatus(msg))
    /\ UNCHANGED <<limitTenths, turnHistory, localStorage, loadedApiKeys, rateLimitMap, globalRateLimit, now, ticks, limiterHistory, storageVars,
                   nreqs, nops>>

\* await fetch(...) returns a response with status st; the handler then awaits its
\* body, as text when the status is not ok and as JSON when it is.
FetchReturns(s, st) ==
    /\ reqs[s].pc = "fetch"
    /\ reqs' = [reqs EXCEPT ![s] =
           [@ EXCEPT !.pc = IF ResponseOk(st) THEN "json" ELSE "text",
                     !.vendor = IF ResponseOk(st) THEN "ok" ELSE "status",
                     !.vendorStatus = st]]
    /\ event' = NoEvent
    /\ UNCHANGED <<limitTenths, turnHistory, localStorage, loadedApiKeys, rateLimitMap, globalRateLimit, now, ticks, limiterHistory, storageVars,
                   nreqs, nops>>

\* Mutant of PassedStatus: every vendor failure is answered 500.
PassedStatus_Always500(st) == 500

\* res.status(apiResponse.status)
PassedStatus(st) == st

\* After await apiResponse.text(): the vendor's status is passed on.
AfterText(s, errorText) ==
    /\ reqs[s].pc = "text"
    /\ Respond(s, [reqs[s] EXCEPT
                      !.vendorBody = [text |-> errorText],
                      !.reply = [error |-> "Failed to get response from AI model",
                                 details |-> errorText]],
               PassedStatus(reqs[s].vendorStatus))
    /\ UNCHANGED <<limitTenths, turnHistory, localStorage, loadedApiKeys, rateLimitMap, globalRateLimit, now, ticks, limiterHistory, storageVars,
                   nreqs, nops>>

\* await apiResponse.json() throws: the body is not JSON.
JsonThrows(s, msg) ==
    /\ reqs[s].pc = "json"
    /\ Respond(s, [reqs[s] EXCEPT !.thrown = msg], CatchStatus(msg))
    /\ UNCHANGED <<limitTenths, turnHistory, localStorage, loadedApiKeys, rateLimitMap, globalRateLimit, now, ticks, limiterHistory, storageVars,
                   nreqs, nops>>

\* After await apiResponse.json(): the text is extracted; without text 500, else
\* the assistant message is stored (the insertion is made at the call).
AfterJson(s, json) ==
    LET r == reqs[s]
        text == ExtractText(r.provider, json)
        insert == [chatId |-> r.chatId, role |-> "assistant", content |-> text,
                   model |-> ModelOrDefault(r.reqModel)]
    IN  /\ r.pc = "json"
        /\ IF NoText(text)
           THEN /\ Respond(s, [r EXCEPT !.vendorBody = json,
                                        !.reply = [error |-> "No response from AI model"]],
                           500)
                /\ UNCHANGED storageVars
           ELSE /\ messages' = createMessage(messages, insert, nextId + 1, now)
                /\ nextId' = nextId + 1
                /\ reqs' = [reqs EXCEPT ![s] =
                       [r EXCEPT !.pc = "createAssistant",
                                 !.vendorBody = json,
                                 !.reply = [message |-> text, messageId |-> nextId + 1,
                                            model |-> ModelOrDefault(r.reqModel)],
                                 !.created = Append(@, newMessage(insert, nextId + 1, now))]]
                /\ event' = NoEvent
                /\ UNCHANGED chats
        /\ UNCHANGED <<limitTenths, turnHistory, localStorage, loadedApiKeys, rateLimitMap, globalRateLimit, now, ticks, limiterHistory, nreqs,
                       nops>>

\* After await storage.createMessage (assistant): res.json(...), status 200.
AfterCreateAssistant(s) ==
    /\ reqs[s].pc = "createAssistant"
    /\ Respond(s, reqs[s], 200)
    /\ UNCHANGED <<limitTenths, turnHistory, localStorage, loadedApiKeys, rateLimitMap, globalRateLimit, now, ticks, limiterHistory, storageVars,
                   nreqs, nops>>

\* POST /api/chats: 400 without id or name, else storage.createChat
CreateChat(id, name) ==
    /\ nops < MaxOps
    /\ nops' = nops + 1
    /\ IF id = Undefined \/ id = "" \/ name = Undefined \/ name = ""
       THEN UNCHANGED chats
       ELSE chats' = createChat(chats, id, name, now)
    /\ event' = NoEvent
    /\ UNCHANGED <<limitTenths, turnHistory, localStorage, loadedApiKeys, rateLimitMap, globalRateLimit, now, ticks, limiterHistory, messages,
                   nextId, reqs, nreqs>>

\* DELETE /api/chats/:id: storage.deleteChat
DeleteChat(id) ==
    /\ nops < MaxOps
    /\ nops' = nops + 1
    /\ chats' = deleteChatChats(chats, id)
    /\ messages' = deleteChatMessages(messages, id)
    /\ reqs' = [s \in Slots |->
                    IF reqs[s].pc # "idle" /\ reqs[s].chatId = id
                    THEN [reqs[s] EXCEPT !.chatDeleted = TRUE]
                    ELSE reqs[s]]
    /\ event' = [kind |-> "deleteChat", id |-> id,
                  removed |-> Len(SelectSeq(messages, LAMBDA m : m.chatId = id))]
    /\ UNCHANGED <<limitTenths, turnHistory, localStorage, loadedApiKeys, rateLimitMap, globalRateLimit, now, ticks, limiterHistory, nextId,
                   nreqs>>

\* What an administrative endpoint was called with and the status it answered
AdminEvent(endpoint, secretCode, input, status) ==
    [kind |-> "admin", endpoint |-> endpoint, secretCode |-> secretCode,
     input |-> input, status |-> status]

\* Mutant of Unauthorized: the secret is not compared.
Unauthorized_Never(secretCode) == FALSE

\* secretCode !== "HYDROAI"
Unauthorized(secretCode) == secretCode # "HYDROAI"

\* POST /api/admin/rate-limit
AdminSecrets == {"HYDROAI", "guess"}
\* A rateLimit of type number is val + tenths / 10, val being its whole part.
AdminRateLimits ==
    {[type |-> "number", val |-> v, tenths |-> 0] : v \in {0, 1, 2, 1001}}
        \cup {[type |-> "undefined", val |-> 0, tenths |-> 0]}

SetRateLimit(secretCode, rateLimit) ==
    /\ nops < MaxOps
    /\ nops' = nops + 1
    /\ IF Unauthorized(secretCode)
       THEN /\ UNCHANGED <<globalRateLimit, limitTenths>>
            /\ event' = AdminEvent("setRateLimit", secretCode, rateLimit, 401)
       ELSE IF \/ rateLimit.type # "number"
               \/ rateLimit.val < 1
               \/ rateLimit.val > 1000
               \/ (rateLimit.val = 1000 /\ rateLimit.tenths > 0)
       THEN /\ UNCHANGED <<globalRateLimit, limitTenths>>
            /\ event' = AdminEvent("setRateLimit", secretCode, rateLimit, 400)
       ELSE /\ globalRateLimit' = rateLimit.val
            /\ limitTenths' = rateLimit.tenths
            /\ event' = AdminEvent("setRateLimit", secretCode, rateLimit, 200)
    /\ UNCHANGED <<turnHistory, localStorage, loadedApiKeys, rateLimitMap, now, ticks, limiterHistory, chats, messages, nextId, reqs,
                   nreqs>>

\* The administrative calls made while chat requests are handled: the limit is
\* set to 1, set to 2, and a set is refused.
GatewayAdminCalls ==
    {[secretCode |-> "HYDROAI", rateLimit |-> [type |-> "number", val |-> 1, tenths |-> 0]],
     [secretCode |-> "HYDROAI", rateLimit |-> [type |-> "number", val |-> 2, tenths |-> 0]],
     [secretCode |-> "guess", rateLimit |-> [type |-> "number", val |-> 1, tenths |-> 0]]}

\* No POST /api/chat request is in flight.  The steps of a request in flight read
\* neither the chats nor the limit: a chat created or a limit set during a request
\* has the effect it has right after the request, and is taken there.
Quiet == \A s \in Slots : reqs[s].pc = "idle"
BetweenRequests(A) == Quiet /\ A

Init == InitLimiter

Next ==
    \/ \E s \in Serial, ip \in Clients, body \in Bodies : Receive(s, ip, body)
    \/ \E s \in Serial : AfterGetChat(s)
    \/ \E s \in Serial : AfterCreateUser(s)
    \/ \E s \in Serial, msg \in ThrowMsgs : FetchThrows(s, msg)
    \/ \E s \in Serial, st \in VendorStatuses : FetchReturns(s, st)
    \/ \E s \in Serial, errorText \in ErrorTexts : AfterText(s, errorText)
    \/ \E s \in Serial : JsonThrows(s, NotJson)
    \/ \E s \in Serial, json \in JsonBodies : AfterJson(s, json)
    \/ \E s \in Serial : AfterCreateAssistant(s)
    \/ \E id \in ChatIds \cup {Undefined}, name \in Names : BetweenRequests(CreateChat(id, name))
    \/ \E id \in ChatIds : DeleteChat(id)
    \/ \E call \in GatewayAdminCalls :
           BetweenRequests(SetRateLimit(call.secretCode, call.rateLimit))

Spec == Init /\ [][Next]_vars

----------------------------------------------------------------------------
(* SpecAdmin: the rate check of POST /api/chat under a limit that is administered *)

\* Mutant of DefaultLimit: the limit is the one the server started with.
DefaultLimit_Initial(global) == DefaultRateLimit

\* limit: number = globalRateLimit: the default is evaluated at each call
DefaultLimit(global) == global

\* checkRateLimit(clientIp), as POST /api/chat calls it
RateCheck(ip) == CheckRateLimit(ip, DefaultLimit(LimitInForce))

\* Time passes between two requests.
Elapse(d) ==
    /\ nops < MaxOps
    /\ nops' = nops + 1
    /\ now' = now + d
    /\ event' = NoEvent
    /\ UNCHANGED <<limitTenths, turnHistory, localStorage, loadedApiKeys, rateLimitMap, globalRateLimit, ticks,
                   limiterHistory, chats, messages, nextId, reqs, nreqs>>

NextAdmin ==
    \/ \E d \in Steps : Elapse(d)
    \/ \E ip \in Clients : RateCheck(ip)
    \/ \E secretCode \in AdminSecrets, rateLimit \in AdminRateLimits :
           SetRateLimit(secretCode, rateLimit)

SpecAdmin == Init /\ [][NextAdmin]_vars

----------------------------------------------------------------------------
(* SpecShape: the request POST /api/chat builds for the vendor *)

ShapeProviders ==
    {Undefined, "github", "openai", "anthropic", "cohere", "mistral", "gemini", "groq"}
ShapeEndpoints == {Undefined, "https://llm.example", "https://llm.example/v1"}
ShapeKeys == {Undefined, "key-1", "key-2"}
ShapeModels == {Undefined, "m1"}
ShapeMessages ==
    {<<UserMsg>>,
     <<UserMsg, AssistantMsg>>,
     <<UserMsg, AssistantMsg, [role |-> "user", content |-> "and then?"]>>}

\* Lines 198 to 248 of the handler, applied to the provider, endpoint, apiKey,
\* model and messages of a request body; the event keeps the body and the
\* values in force after the defaults
Shape(provider, endpoint, apiKey, model, msgs) ==
    /\ event' = [kind |-> "shape",
                  body |-> [provider |-> provider, endpoint |-> endpoint,
                            apiKey |-> apiKey, model |-> model],
                  provider |-> ProviderOrDefault(provider),
                  endpoint |-> EndpointOrDefault(endpoint),
                  apiKey |-> ApiKeyOrDefault(apiKey),
                  model |-> ModelOrDefault(model),
                  messages |-> msgs,
                  request |-> ShapeRequest(ProviderOrDefault(provider),
                                           EndpointOrDefault(endpoint),
                                           ApiKeyOrDefault(apiKey),
                                           ModelOrDefault(model), msgs)]
    /\ UNCHANGED <<limitTenths, turnHistory, localStorage, loadedApiKeys, rateLimitMap, globalRateLimit, now, ticks,
                   limiterHistory, chats, messages, nextId, reqs, nreqs, nops>>

NextShape ==
    \E provider \in ShapeProviders, endpoint \in ShapeEndpoints, apiKey \in ShapeKeys,
       model \in ShapeModels, msgs \in ShapeMessages :
        Shape(provider, endpoint, apiKey, model, msgs)

SpecShape == Init /\ [][NextShape]_vars

----------------------------------------------------------------------------
(* SpecStore: MemStorage under the endpoints that read it and administer it *)

MessageRoles == {"user", "assistant"}
StoreNames == Names \cup {"n2"}
DataTypes == {"chats", "all", "messages"}

\* storage.createMessage, as POST /api/chat calls it for a turn of chat chatId
CreateMessage(chatId, role) ==
    LET insert == [chatId |-> chatId, role |-> role,
                   content |-> IF role = "user" THEN "hi" ELSE "hello",
                   model |-> IF role = "user" THEN Null ELSE "gpt-5"]
    IN  /\ nops < MaxOps
        /\ nops' = nops + 1
        /\ messages' = createMessage(messages, insert, nextId + 1, now)
        /\ nextId' = nextId + 1
        /\ event' = NoEvent
        /\ UNCHANGED <<limitTenths, turnHistory, localStorage, loadedApiKeys, rateLimitMap, globalRateLimit, now, ticks,
                       limiterHistory, chats, reqs, nreqs>>

\* GET /api/chats
GetChats ==
    /\ event' = [kind |-> "getChats", result |-> getChatsByUserId(chats)]
    /\ UNCHANGED <<limitTenths, turnHistory, localStorage, loadedApiKeys, rateLimitMap, globalRateLimit, now, ticks,
                   limiterHistory, chats, messages, nextId, reqs, nreqs, nops>>

\* GET /api/chats/:id/messages
GetMessages(id) ==
    /\ event' = [kind |-> "getMessages", id |-> id,
                  result |-> getMessagesByChatId(messages, id)]
    /\ messages' = StoreAfterRead(messages, id)
    /\ UNCHANGED <<limitTenths, turnHistory, localStorage, loadedApiKeys, rateLimitMap, globalRateLimit, now, ticks,
                   limiterHistory, chats, nextId, reqs, nreqs, nops>>

\* GET /api/admin/rate-limit
GetRateLimit(secretCode) ==
    /\ event' = IF Unauthorized(secretCode)
                THEN AdminEvent("getRateLimit", secretCode, Undefined, 401)
                ELSE [AdminEvent("getRateLimit", secretCode, Undefined, 200)
                         EXCEPT !.input = [rateLimit |-> globalRateLimit, tenths |-> limitTenths]]
    /\ UNCHANGED <<limitTenths, turnHistory, localStorage, loadedApiKeys, rateLimitMap, globalRateLimit, now, ticks,
                   limiterHistory, chats, messages, nextId, reqs, nreqs, nops>>

\* The messages counted by the statistics: those of the chats that exist
RECURSIVE CountMessages(_, _)
CountMessages(cs, ms) ==
    IF cs = <<>> THEN 0
    ELSE Len(getMessagesByChatId(ms, Head(cs).id)) + CountMessages(Tail(cs), ms)

\* GET /api/admin/stats
Stats(secretCode) ==
    /\ event' = IF Unauthorized(secretCode)
                THEN AdminEvent("stats", secretCode, Undefined, 401)
                ELSE [AdminEvent("stats", secretCode, Undefined, 200)
                         EXCEPT !.input =
                             [totalChats |-> Len(getChatsByUserId(chats)),
                              totalMessages |-> CountMessages(getChatsByUserId(chats), messages),
                              currentRateLimit |-> globalRateLimit,
                              tenths |-> limitTenths]]
    /\ UNCHANGED <<limitTenths, turnHistory, localStorage, loadedApiKeys, rateLimitMap, globalRateLimit, now, ticks,
                   limiterHistory, chats, messages, nextId, reqs, nreqs, nops>>

\* for (const chat of chats) await storage.deleteChat(chat.id)
RECURSIVE ClearChats(_, _)
ClearChats(list, cs) ==
    IF list = <<>> THEN cs ELSE ClearChats(Tail(list), deleteChatChats(cs, Head(list).id))

RECURSIVE ClearMessages(_, _)
ClearMessages(list, ms) ==
    IF list = <<>> THEN ms
    ELSE ClearMessages(Tail(list), deleteChatMessages(ms, Head(list).id))

\* POST /api/admin/clear-data.  The storage calls it awaits do no input or
\* output: the handler runs to its answer before any other request is handled.
ClearData(secretCode, dataType) ==
    /\ nops < MaxOps
    /\ nops' = nops + 1
    /\ IF Unauthorized(secretCode)
       THEN /\ event' = AdminEvent("clearData", secretCode, dataType, 401)
            /\ UNCHANGED <<chats, messages>>
       ELSE /\ event' = AdminEvent("clearData", secretCode, dataType, 200)
            /\ IF dataType = "chats" \/ dataType = "all"
               THEN /\ chats' = ClearChats(getChatsByUserId(chats), chats)
                    /\ messages' = ClearMessages(getChatsByUserId(chats), messages)
               ELSE UNCHANGED <<chats, messages>>
    /\ UNCHANGED <<limitTenths, turnHistory, localStorage, loadedApiKeys, rateLimitMap, globalRateLimit, now, ticks,
                   limiterHistory, nextId, reqs, nreqs>>

\* POST /api/admin/broadcast
Broadcast(secretCode) ==
    /\ event' = IF Unauthorized(secretCode)
                THEN AdminEvent("broadcast", secretCode, Undefined, 401)
                ELSE AdminEvent("broadcast", secretCode, Undefined, 200)
    /\ UNCHANGED <<limitTenths, turnHistory, localStorage, loadedApiKeys, rateLimitMap, globalRateLimit, now, ticks,
                   limiterHistory, chats, messages, nextId, reqs, nreqs, nops>>

NextStore ==
    \/ \E d \in Steps : Elapse(d)
    \/ \E id \in ChatIds \cup {Undefined}, name \in StoreNames : CreateChat(id, name)
    \/ \E chatId \in ChatIds, role \in MessageRoles : CreateMessage(chatId, role)
    \/ \E id \in ChatIds : DeleteChat(id)
    \/ GetChats
    \/ \E id \in ChatIds : GetMessages(id)
    \/ \E secretCode \in AdminSecrets, rateLimit \in AdminRateLimits :
           SetRateLimit(secretCode, rateLimit)
    \/ \E secretCode \in AdminSecrets : GetRateLimit(secretCode)
    \/ \E secretCode \in AdminSecrets : Stats(secretCode)
    \/ \E secretCode \in AdminSecrets, dataType \in DataTypes : ClearData(secretCode, dataType)
    \/ \E secretCode \in AdminSecrets : Broadcast(secretCode)

SpecStore == Init /\ [][NextStore]_vars

----------------------------------------------------------------------------
(* SpecTurns: POST /api/chat turns handled concurrently *)

\* A handler waits for a storage call.  The methods of MemStorage await nothing:
\* the promise the handler awaits is settled already and the handler goes on in a
\* microtask, which runs before the event loop takes up another request, another
\* vendor answer or the clock's next reading.
Pending == \E s \in Slots : reqs[s].pc \in {"getChat", "createUser", "createAssistant"}
Macrotask(A) == ~Pending /\ A

FollowUp == [role |-> "user", content |-> "and then?"]

\* Two turns of chat c1, told apart by their last message and their model
TurnBodies ==
    {[chatId |-> "c1", messages |-> <<UserMsg>>],
     [chatId |-> "c1", messages |-> <<UserMsg, AssistantMsg, FollowUp>>, model |-> "m1"]}

TurnJson == {[choices |-> "hello", candidates |-> Undefined, content |-> Undefined]}

TurnStatuses == {200, 500}

TurnSteps == {Window + 1}

\* POST /api/chat up to its first await, with the history of the sender's window
ReceiveTurn(s, ip, body) ==
    LET opened == WindowExpired(rateLimitMap, ip, now)
        allowed == checkRateLimit(rateLimitMap, ip, LimitInForce, now)
    IN  /\ ReceiveStep(s, ip, body)
        /\ admitted' = [admitted EXCEPT ![ip] =
                            IF opened THEN 1 ELSE IF allowed THEN @ + 1 ELSE @]
        /\ started' = [started EXCEPT ![ip] = IF opened THEN 0 ELSE @]
        /\ winLimits' = [winLimits EXCEPT ![ip] =
                             IF opened THEN {LimitInForce} ELSE @ \cup {LimitInForce}]
        /\ UNCHANGED <<ncalls, last, winCalls, admitLog>>

\* A step of the handler of slot s that may call fetch
CountFetch(s) ==
    /\ started' = IF reqs'[s].pc = "fetch"
                  THEN [started EXCEPT ![reqs[s].ip] = @ + 1]
                  ELSE started
    /\ UNCHANGED admitted

AfterGetChatTurn(s) == AfterGetChatStep(s) /\ CountFetch(s)

AfterCreateUserTurn(s) == AfterCreateUserStep(s) /\ CountFetch(s)

NextTurns ==
    \/ \E s \in Slots, body \in TurnBodies : Macrotask(ReceiveTurn(s, "ipA", body))
    \/ \E s \in Slots : AfterGetChatTurn(s)
    \/ \E s \in Slots : AfterCreateUserTurn(s)
    \/ \E s \in Slots, st \in TurnStatuses : Macrotask(FetchReturns(s, st))
    \/ \E s \in Slots : Macrotask(AfterText(s, "model overloaded"))
    \/ \E s \in Slots, json \in TurnJson : Macrotask(AfterJson(s, json))
    \/ \E s \in Slots : AfterCreateAssistant(s)
    \/ Macrotask(CreateChat("c1", "n1"))
    \/ Macrotask(DeleteChat("c1"))
    \/ Macrotask(SetRateLimit("HYDROAI", [type |-> "number", val |-> 1, tenths |-> 0]))
    \/ \E d \in TurnSteps : Macrotask(Elapse(d))

SpecTurns == Init /\ [][NextTurns]_vars

----------------------------------------------------------------------------
(* SpecPaths: every way through the handler of POST /api/chat, one request at a *)
(* time, and the fairness of the event loop                                    *)

PathBodies ==
    TurnBodies
        \cup {[chatId |-> "c1", messages |-> <<>>],
              [chatId |-> "c2", messages |-> <<UserMsg>>],
              [messages |-> <<UserMsg>>]}

PathJson ==
    TurnJson \cup {[choices |-> Undefined, candidates |-> Undefined, content |-> Undefined]}

\* Messages of the errors fetch and json() throw, as the phrases they contain
PathThrowMsgs == {FetchFailed, NotJson, {"quota"}, {"unauthorized"}, {"auth"}}

\* Texts of the vendor's error bodies
PathErrorTexts == {"model overloaded", "quota exceeded"}

\* The steps of the handler of slot s after a request is received
Continue(s) ==
    \/ AfterGetChat(s)
    \/ AfterCreateUser(s)
    \/ \E msg \in PathThrowMsgs : Macrotask(FetchThrows(s, msg))
    \/ \E st \in VendorStatuses : Macrotask(FetchReturns(s, st))
    \/ \E errorText \in PathErrorTexts : Macrotask(AfterText(s, errorText))
    \/ \E msg \in PathThrowMsgs : Macrotask(JsonThrows(s, msg))
    \/ \E json \in PathJson : Macrotask(AfterJson(s, json))
    \/ AfterCreateAssistant(s)

NextPaths ==
    \/ \E s \in Serial, body \in PathBodies : Macrotask(Receive(s, "ipA", body))
    \/ \E s \in Serial : Continue(s)
    \/ Macrotask(CreateChat("c1", "n1"))
    \/ Macrotask(DeleteChat("c1"))
    \/ Macrotask(SetRateLimit("HYDROAI", [type |-> "number", val |-> 1, tenths |-> 0]))

SpecPaths == Init /\ [][NextPaths]_vars

\* The event loop runs every handler on: the storage calls settle at once, and
\* the vendor call and the reading of its body return or throw in the end.
FairPaths == SpecPaths /\ \A s \in Serial : WF_vars(Continue(s))

----------------------------------------------------------------------------
(* SpecLimitValue: the values POST /api/admin/rate-limit takes for the limit *)

\* Values of rateLimit in a JSON body: whole numbers, numbers that are not whole,
\* a string, and none.
LimitInputs ==
    AdminRateLimits
        \cup {[type |-> "number", val |-> 1000, tenths |-> 0],
              [type |-> "number", val |-> 0, tenths |-> 5],
              [type |-> "number", val |-> 2, tenths |-> 5],
              [type |-> "number", val |-> 1000, tenths |-> 5],
              [type |-> "string", val |-> 0, tenths |-> 0]}

NextLimitValue ==
    \/ \E secretCode \in AdminSecrets, rateLimit \in LimitInputs :
           SetRateLimit(secretCode, rateLimit)
    \/ \E secretCode \in AdminSecrets : GetRateLimit(secretCode)
    \/ \E ip \in Clients : RateCheck(ip)

SpecLimitValue == Init /\ [][NextLimitValue]_vars

\* C28: the global rate limit is always a whole number in 1..1000, and a set with
\* the right secret and a value that is not a number, is below 1 or is above 1000
\* is answered 400.
C28_WholeInRange ==
    /\ limitTenths = 0
    /\ globalRateLimit \in 1..1000
    /\ (/\ event.kind = "admin"
        /\ event.endpoint = "setRateLimit"
        /\ event.secretCode = "HYDROAI"
        /\ \/ event.input.type # "number"
           \/ event.input.val < 1
           \/ event.input.val > 1000
           \/ (event.input.val = 1000 /\ event.input.tenths > 0))
       => event.status = 400

----------------------------------------------------------------------------
(* Claims about checkRateLimit, checked under SpecLimiter *)

\* The limit argument was the same, L, in every call of the window the last call
\* belongs to.
FixedLimitInWindow == last.valid /\ winLimits[last.ip] = {last.limit}

\* C1: for a limit L >= 1 that is the same in every call of a window, the call
\* with index idx in the window (the opening call has index 1) returns true
\* exactly when idx <= L: the first L calls are admitted, the (L+1)-th and every
\* later one are rejected.
C1_FirstLAdmitted ==
    (FixedLimitInWindow /\ last.limit >= 1) => (last.allowed <=> last.idx <= last.limit)

\* C1 witness: the third call of a window at limit 2 has been rejected.
C1_Witness ==
    FixedLimitInWindow /\ last.limit = 2 /\ last.idx = 3 /\ ~last.allowed

\* C2: a call for a key with no entry in the map returns true for every limit >= 1
\* and leaves the entry count = 1, resetTime = now + 60 seconds.
C2_FreshKeyAdmitted ==
    (last.valid /\ ~last.hadEntry /\ last.limit >= 1) =>
        /\ last.allowed
        /\ last.ip \in DOMAIN rateLimitMap
        /\ rateLimitMap[last.ip] = [count |-> 1, resetTime |-> last.t + 60000]

\* C2 witness: a first call for a key, made at a time other than 0, at limit 1.
C2_Witness ==
    last.valid /\ ~last.hadEntry /\ last.limit = 1 /\ last.t > 0 /\ last.allowed

\* C3 (as claimed): a call made at now >= resetTime of the key's entry, the boundary
\* now = resetTime included, returns true and overwrites the entry with count = 1,
\* resetTime = now + 60 seconds.  The code compares now > resetTime, so that at
\* now = resetTime the old window is still in force.
C3_BoundaryExpired ==
    (last.valid /\ last.hadEntry /\ last.t >= last.prevReset) =>
        /\ last.allowed
        /\ rateLimitMap[last.ip] = [count |-> 1, resetTime |-> last.t + 60000]

\* Every admitted call recorded in the log of ip was admitted at limit L.
AdmittedAtLimit(ip, L) ==
    \A i \in DOMAIN admitLog[ip] : admitLog[ip][i][2] = L

\* The log of ip spans less than 60 seconds.
LogWithinWindow(ip) ==
    \A i, j \in DOMAIN admitLog[ip] : admitLog[ip][j][1] - admitLog[ip][i][1] < 60000

\* C4 (as claimed): at a fixed limit L >= 1, the calls of one key admitted within any
\* interval of 60 seconds number at most L.
C4_RollingAtMostL ==
    \A ip \in Clients, L \in Limits :
        (L >= 1 /\ AdmittedAtLimit(ip, L) /\ LogWithinWindow(ip)) => Len(admitLog[ip]) <= L

\* C4 (amended): at a fixed limit L >= 1, the calls of one key admitted within any
\* interval of 60 seconds number at most 2L - 1: at most L - 1 at the end of one
\* fixed window and L at the start of the next.
C4_RollingAtMost2LMinus1 ==
    \A ip \in Clients, L \in Limits :
        (L >= 1 /\ AdmittedAtLimit(ip, L) /\ LogWithinWindow(ip)) =>
            Len(admitLog[ip]) <= 2 * L - 1

\* C4 witness: three calls of one key admitted at limit 2 within 60 seconds.
C4_Witness ==
    \E ip \in Clients :
        AdmittedAtLimit(ip, 2) /\ LogWithinWindow(ip) /\ Len(admitLog[ip]) = 3

----------------------------------------------------------------------------
(* Claims about POST /api/chat and DELETE /api/chats/:id, checked under Spec *)

\* The latest step answered a POST /api/chat request.
Responded == event.kind = "response"

\* Message m is in the store.
Stored(m) == \E i \in DOMAIN messages : messages[i] = m

\* The roles of the messages a request created, in the order of creation.
CreatedRoles(r) == [i \in DOMAIN r.created |-> r.created[i].role]

\* The user message the handler stores for request r.
UserMessageOf(r, m) ==
    /\ m.role = "user"
    /\ m.chatId = r.chatId
    /\ m.content = r.content
    /\ m.model = Null

\* C5: a step that answers a request the rate limiter rejected answers 429; the
\* request has created no message and started no provider call, and the step
\* leaves the stored chats and messages as they were.
C5_RejectedNoEffect ==
    [][(event'.kind = "response" /\ event'.req.limited) =>
           /\ event'.req.status = 429
           /\ event'.req.created = <<>>
           /\ ~event'.req.fetched
           /\ chats' = chats
           /\ messages' = messages
           /\ nextId' = nextId]_vars

\* C5 witness: a request has been rejected by the limiter while messages are stored.
C5_Witness ==
    Responded /\ event.req.limited /\ event.req.status = 429 /\ messages # <<>>

\* C6 (as claimed): every request answered 2xx has created exactly two messages
\* of its chat, a user message with model null and then an assistant message
\* whose model is the requested model id.
C6_TwoMessages ==
    (Responded /\ ResponseOk(event.req.status)) =>
        LET r == event.req
        IN  /\ Len(r.created) = 2
            /\ UserMessageOf(r, r.created[1])
            /\ r.created[2].role = "assistant"
            /\ r.created[2].chatId = r.chatId
            /\ r.created[2].model = r.reqModel

\* C6 (amended): a request answered 2xx whose last message has role user has
\* created exactly two messages of its chat, the user message (model null) and
\* then the assistant message; one whose last message has role assistant has
\* created the assistant message alone.  The assistant message's model is the
\* requested id when that is a non-empty string, "gpt-5" when none was given and
\* null when it is the empty string.  The messages are stored as created unless
\* the chat was deleted meanwhile.
C6_TurnMessages ==
    (Responded /\ ResponseOk(event.req.status)) =>
        LET r == event.req
            n == Len(r.created)
        IN  /\ event.req.status = 200
            /\ CreatedRoles(r) = IF r.lastRole = "user" THEN <<"user", "assistant">>
                                 ELSE <<"assistant">>
            /\ r.lastRole = "user" => UserMessageOf(r, r.created[1])
            /\ r.created[n].chatId = r.chatId
            /\ r.created[n].model = IF r.reqModel = Undefined THEN "gpt-5"
                                    ELSE IF r.reqModel = "" THEN Null
                                    ELSE r.reqModel
            /\ \A i, j \in 1 .. n : i < j => r.created[i].id < r.created[j].id
            /\ ~r.chatDeleted => \A i \in 1 .. n : Stored(r.created[i])

\* C6 witness: a turn with a user message and model "m1" has been answered 200
\* and both its messages are stored.
C6_Witness ==
    /\ Responded
    /\ event.req.status = 200
    /\ event.req.lastRole = "user"
    /\ event.req.reqModel = "m1"
    /\ Len(event.req.created) = 2
    /\ \A i \in 1 .. 2 : Stored(event.req.created[i])

\* The vendor call of the answered request failed: fetch threw, or the vendor's
\* status was not a success.
VendorFailed == Responded /\ event.req.vendor \in {"threw", "status"}

\* C7 (as claimed): when the vendor call failed, the turn's user message is
\* stored, the turn created no assistant message and the status is not 2xx.
C7_UserMessagePersisted ==
    VendorFailed =>
        LET r == event.req
        IN  /\ ~ResponseOk(r.status)
            /\ \A i \in DOMAIN r.created : r.created[i].role # "assistant"
            /\ \E i \in DOMAIN r.created :
                   UserMessageOf(r, r.created[i]) /\ Stored(r.created[i])

\* C7 (amended): when the vendor call failed, the status is not 2xx and the turn
\* created no assistant message; a turn whose last message has role user created
\* its user message and nothing else, and the message is still stored unless the
\* chat was deleted meanwhile; a turn whose last message has role assistant
\* created nothing.
C7_VendorFailure ==
    VendorFailed =>
        LET r == event.req
        IN  /\ ~ResponseOk(r.status)
            /\ r.fetched
            /\ CreatedRoles(r) = IF r.lastRole = "user" THEN <<"user">> ELSE <<>>
            /\ r.lastRole = "user" =>
                   /\ UserMessageOf(r, r.created[1])
                   /\ ~r.chatDeleted => Stored(r.created[1])

\* C7 witness: the vendor answered 500 to a turn whose user message is stored.
C7_Witness ==
    /\ VendorFailed
    /\ event.req.vendor = "status"
    /\ event.req.status = 500
    /\ event.req.lastRole = "user"
    /\ Len(event.req.created) = 1
    /\ Stored(event.req.created[1])

\* C8 (as claimed): a step that answers a request whose body fails validation
\* answers 400 and changes nothing: not the chats, not the messages, not any
\* entry of the limiter map; and the request started no provider call.
C8_InvalidNoChange ==
    [][(event'.kind = "response" /\ ~event'.req.valid) =>
           /\ event'.req.status = 400
           /\ ~event'.req.fetched
           /\ chats' = chats
           /\ messages' = messages
           /\ rateLimitMap' = rateLimitMap]_vars

\* C8 (amended): a step that answers a request whose body fails validation
\* answers 400 when the limiter admits the request and 429 when it rejects it.
\* It changes no chat and no message, starts no provider call and leaves every
\* other key's limiter entry as it was; an admitted request is counted: the
\* caller's entry becomes count = 1, resetTime = now + 60 seconds when there was
\* none or its window had passed, and else has its count raised by one.
C8_InvalidOnlyCounted ==
    [][(event'.kind = "response" /\ ~event'.req.valid) =>
           LET r == event'.req
               had == r.ip \in DOMAIN rateLimitMap
           IN  /\ r.status = IF r.limited THEN 429 ELSE 400
               /\ ~r.fetched
               /\ r.created = <<>>
               /\ chats' = chats
               /\ messages' = messages
               /\ nextId' = nextId
               /\ globalRateLimit' = globalRateLimit
               /\ DOMAIN rateLimitMap' = DOMAIN rateLimitMap \cup {r.ip}
               /\ \A k \in DOMAIN rateLimitMap : k # r.ip => rateLimitMap'[k] = rateLimitMap[k]
               /\ r.limited => had /\ rateLimitMap'[r.ip] = rateLimitMap[r.ip]
               /\ ~r.limited =>
                      \/ /\ ~had \/ now > rateLimitMap[r.ip].resetTime
                         /\ rateLimitMap'[r.ip] = [count |-> 1, resetTime |-> now + 60000]
                      \/ /\ had
                         /\ now <= rateLimitMap[r.ip].resetTime
                         /\ rateLimitMap'[r.ip] =
                                [count |-> rateLimitMap[r.ip].count + 1,
                                 resetTime |-> rateLimitMap[r.ip].resetTime]]_vars

\* C8 witness: an invalid request has been answered 400 and is the second request
\* the limiter counted for its sender.
C8_Witness ==
    /\ Responded
    /\ ~event.req.valid
    /\ event.req.status = 400
    /\ rateLimitMap[event.req.ip].count = 2

\* The answered request was well formed and named a chat that getChat did not find.
MissingChat == Responded /\ event.req.valid /\ ~event.req.chatFound

\* C9 (as claimed): a well-formed request whose chat does not exist is answered
\* 404, has created no message and started no provider call.
C9_MissingChat404 ==
    MissingChat =>
        /\ event.req.status = 404
        /\ event.req.created = <<>>
        /\ ~event.req.fetched

\* C9 (amended): a well-formed request whose chat does not exist is answered 404
\* when the limiter admits it and 429 when the limiter rejects it; either way it
\* has created no message and started no provider call.
C9_MissingChatAdmitted404 ==
    MissingChat =>
        /\ event.req.status = IF event.req.limited THEN 429 ELSE 404
        /\ event.req.created = <<>>
        /\ ~event.req.fetched

\* C9 witness: a request for a missing chat has been answered 404 while another
\* chat exists.
C9_Witness ==
    MissingChat /\ event.req.status = 404 /\ chats # <<>>

\* The chat record stored under id, where there is one.
ChatOf(cs, id) == {cs[i] : i \in {j \in DOMAIN cs : cs[j].id = id}}

\* C10: a step that deletes chat id leaves no chat under id and no message to be
\* read for id, and leaves the chat and the messages of every other id as they
\* were.
C10_DeleteCascades ==
    [][event'.kind = "deleteChat" =>
           /\ ~hasChat(chats', event'.id)
           /\ getMessagesByChatId(messages', event'.id) = <<>>
           /\ \A m \in {messages'[i] : i \in DOMAIN messages'} : m.chatId # event'.id
           /\ \A other \in ChatIds \ {event'.id} :
                  /\ ChatOf(chats', other) = ChatOf(chats, other)
                  /\ getMessagesByChatId(messages', other) =
                         getMessagesByChatId(messages, other)]_vars

\* C10 witness: a chat with two messages has been deleted while a message of
\* another chat stays stored.
C10_Witness ==
    event.kind = "deleteChat" /\ event.removed = 2 /\ messages # <<>>

----------------------------------------------------------------------------
(* SpecProviders: the client's provider list *)

\* loadApiKeys: the keys are fetched once; a failed fetch leaves them as they are.
LoadApiKeys(ok, keys) ==
    /\ nops < MaxOps
    /\ nops' = nops + 1
    /\ loadedApiKeys' =
           IF loadedApiKeys.keysLoaded \/ ~ok THEN loadedApiKeys
           ELSE [keysLoaded |-> TRUE, gemini |-> keys.gemini, mistral |-> keys.mistral,
                 github |-> keys.github]
    /\ event' = NoEvent
    /\ UNCHANGED <<limitTenths, turnHistory, localStorage, rateLimitMap, globalRateLimit, now, ticks, limiterHistory,
                   chats, messages, nextId, reqs, nreqs>>

\* handleAddProvider, handleSaveProvider: saveAIProvider(provider)
SaveAIProvider(provider) ==
    /\ nops < MaxOps
    /\ nops' = nops + 1
    /\ localStorage' = saveAIProvider(localStorage, provider)
    /\ event' = [kind |-> "saveAIProvider", provider |-> provider]
    /\ UNCHANGED <<limitTenths, turnHistory, loadedApiKeys, rateLimitMap, globalRateLimit, now, ticks,
                   limiterHistory, chats, messages, nextId, reqs, nreqs>>

\* handleRemoveProvider: removeAIProvider(providerId)
RemoveAIProvider(providerId) ==
    /\ nops < MaxOps
    /\ nops' = nops + 1
    /\ localStorage' = removeAIProvider(localStorage, loadedApiKeys, providerId)
    /\ event' = [kind |-> "removeAIProvider", id |-> providerId]
    /\ UNCHANGED <<limitTenths, turnHistory, loadedApiKeys, rateLimitMap, globalRateLimit, now, ticks,
                   limiterHistory, chats, messages, nextId, reqs, nreqs>>

\* setSelectedProvider(providerId)
SetSelectedProvider(providerId) ==
    /\ nops < MaxOps
    /\ nops' = nops + 1
    /\ localStorage' = setItem(localStorage, SELECTED_PROVIDER_KEY, providerId)
    /\ event' = NoEvent
    /\ UNCHANGED <<limitTenths, turnHistory, loadedApiKeys, rateLimitMap, globalRateLimit, now, ticks,
                   limiterHistory, chats, messages, nextId, reqs, nreqs>>

\* setProviders(getAIProviders()): the list is read; nothing is written.
GetAIProviders ==
    /\ event' = [kind |-> "getAIProviders",
                  providers |-> getAIProviders(localStorage, loadedApiKeys)]
    /\ UNCHANGED <<limitTenths, turnHistory, localStorage, loadedApiKeys, rateLimitMap, globalRateLimit, now, ticks,
                   limiterHistory, chats, messages, nextId, reqs, nreqs, nops>>

NextProviders ==
    \/ \E ok \in BOOLEAN, keys \in ServerKeys : LoadApiKeys(ok, keys)
    \/ \E provider \in SavedProviders : SaveAIProvider(provider)
    \/ \E providerId \in ProviderIds : RemoveAIProvider(providerId)
    \/ \E providerId \in ProviderIds : SetSelectedProvider(providerId)
    \/ GetAIProviders

SpecProviders == Init /\ [][NextProviders]_vars

----------------------------------------------------------------------------
(* Claims about the client's provider list, checked under SpecProviders *)

\* The providers listed under id by getAIProviders() in the current state.
Listed(id) ==
    LET providers == getAIProviders(localStorage, loadedApiKeys)
    IN  {providers[i] : i \in {j \in DOMAIN providers : providers[j].id = id}}

\* C19 (as claimed): right after saveAIProvider(p), getAIProviders() lists under
\* p.id a provider whose displayName, endpoint, modelId and requestsPerMinute are
\* those of p, for a default provider as for a custom one.  getAIProviders sets
\* requestsPerMinute of every default provider to 50, whatever was saved.
C19_EditPersists ==
    event.kind = "saveAIProvider" =>
        \E q \in Listed(event.provider.id) :
            /\ q.displayName = event.provider.displayName
            /\ q.endpoint = event.provider.endpoint
            /\ q.modelId = event.provider.modelId
            /\ q.requestsPerMinute = event.provider.requestsPerMinute

----------------------------------------------------------------------------
(* Claims about the limit in force, checked under SpecLimiter and SpecAdmin *)

\* C20: a call of checkRateLimit that returns false leaves the whole limiter map
\* as it was: the caller's entry keeps its count and its resetTime, so that
\* repeated rejected calls neither extend the window nor raise the count.
C20_RejectedUnchanged ==
    [][(ncalls' = ncalls + 1 /\ ~last'.allowed) =>
           /\ rateLimitMap' = rateLimitMap
           /\ last'.hadEntry
           /\ rateLimitMap'[last'.ip] =
                  [count |-> last'.prevCount, resetTime |-> last'.prevReset]]_vars

\* C20 witness: the second rejected call in a row of a window at limit 1; the
\* count is still 1.
C20_Witness ==
    /\ FixedLimitInWindow
    /\ last.limit = 1
    /\ last.idx = 3
    /\ ~last.allowed
    /\ rateLimitMap[last.ip].count = 1

\* The step is a call of POST /api/admin/rate-limit.
AdminSetStep == event'.kind = "admin" /\ event'.endpoint = "setRateLimit"

\* The step is a rate check.
RateCheckStep == ncalls' = ncalls + 1

\* The caller of the rate check has an entry whose window has not passed.
InWindow(ip) == ip \in DOMAIN rateLimitMap /\ now <= rateLimitMap[ip].resetTime

\* A call of the administrative set is answered 200 exactly when the secret is
\* right and the limit is a number from 1 to 1000, and then makes that number the
\* limit; any other step leaves the limit as it is.
SetRule ==
    /\ AdminSetStep =>
           /\ (event'.status = 200) <=>
                  /\ event'.secretCode = "HYDROAI"
                  /\ event'.input.type = "number"
                  /\ event'.input.val >= 1
                  /\ event'.input.val <= 1000
           /\ globalRateLimit' = IF event'.status = 200 THEN event'.input.val
                                 ELSE globalRateLimit
    /\ ~AdminSetStep => globalRateLimit' = globalRateLimit

\* A rate check is decided against the limit in force at the check.
CheckRule ==
    RateCheckStep =>
        LET ip == last'.ip
        IN  /\ last'.allowed <=>
                   (~InWindow(ip) \/ rateLimitMap[ip].count < globalRateLimit)
            /\ (InWindow(ip) /\ last'.allowed) =>
                   rateLimitMap'[ip] = [count |-> rateLimitMap[ip].count + 1,
                                        resetTime |-> rateLimitMap[ip].resetTime]
            /\ (InWindow(ip) /\ ~last'.allowed) => rateLimitMap'[ip] = rateLimitMap[ip]

C18_FiftyPerMinute ==
    (nops = 0 /\ last.valid /\ last.idx <= 50) => last.allowed

----------------------------------------------------------------------------
(* Claims about the reads and the administrative endpoints, under SpecStore *)

\* C15: a call of an administrative endpoint (set rate limit, get rate limit,
\* stats, clear-data, broadcast) with a secret other than the shared secret is
\* answered 401, and the step changes neither the global rate limit nor the
\* limiter map nor the stored chats and messages.
C15_WrongSecretNoEffect ==
    [][(event'.kind = "admin" /\ event'.secretCode # "HYDROAI") =>
           /\ event'.status = 401
           /\ globalRateLimit' = globalRateLimit
           /\ rateLimitMap' = rateLimitMap
           /\ chats' = chats
           /\ messages' = messages
           /\ nextId' = nextId]_vars

\* C15 witness: clear-data of everything has been refused for a wrong secret
\* while a chat and a message are stored and the limit is one that was set.
C15_Witness ==
    /\ event.kind = "admin"
    /\ event.endpoint = "clearData"
    /\ event.input = "all"
    /\ event.secretCode = "guess"
    /\ event.status = 401
    /\ chats # <<>>
    /\ messages # <<>>

Range(seq) == {seq[i] : i \in DOMAIN seq}

\* C17: GET /api/chats returns every chat once, no chat before a chat with a
\* later createdAt; GET /api/chats/:id/messages returns every message of chat id
\* once and no other message, in the order of their creation, which is also the
\* order of their timestamps: of two messages with one timestamp, the one
\* created first comes first.
C17_ReadOrder ==
    /\ event.kind = "getChats" =>
           /\ Range(event.result) = Range(chats)
           /\ Len(event.result) = Len(chats)
           /\ \A i, j \in DOMAIN event.result :
                  i < j => event.result[i].createdAt >= event.result[j].createdAt
    /\ event.kind = "getMessages" =>
           /\ Range(event.result) = {m \in Range(messages) : m.chatId = event.id}
           /\ Len(event.result) = Cardinality(Range(event.result))
           /\ \A i, j \in DOMAIN event.result :
                  i < j => /\ event.result[i].timestamp <= event.result[j].timestamp
                           /\ event.result[i].id < event.result[j].id

\* C17 witness: a read has returned the user message and then the assistant
\* message of a turn, both created at the same timestamp.
C17_Witness ==
    /\ event.kind = "getMessages"
    /\ Len(event.result) = 2
    /\ event.result[1].role = "user"
    /\ event.result[2].role = "assistant"
    /\ event.result[1].timestamp = event.result[2].timestamp

----------------------------------------------------------------------------
(* Claims about the vendor call: SpecShape for the request, Spec for the answer *)

\* C11: the request built for a provider follows the dispatch table.  URL:
\* endpoint/chat/completions, and for gemini
\* endpoint/models/model:generateContent?key=apiKey.  Headers besides
\* Content-Type: Authorization "Bearer apiKey" for github, openai, cohere and
\* mistral; x-api-key and anthropic-version for anthropic; none for gemini.
\* Body: model, the full list of messages and max_completion_tokens = 4000 for
\* github and openai, max_tokens = 4000 for anthropic, cohere and mistral; for
\* gemini the text of the last message alone.  Any other provider string gives
\* the request that openai gives.
C11_DispatchTable ==
    event.kind = "shape" =>
        LET p == event.provider
            e == event.endpoint
            k == event.apiKey
            m == event.model
            q == event.request
            list == [i \in DOMAIN event.messages |->
                        [role |-> event.messages[i].role,
                         content |-> event.messages[i].content]]
        IN  /\ q.method = "POST"
            /\ q.url = IF p = "gemini"
                       THEN <<e, "/models/", m, ":generateContent?key=", k>>
                       ELSE <<e, "/chat/completions">>
            /\ q.headers["Content-Type"] = <<"application/json">>
            /\ p \in {"github", "openai", "cohere", "mistral"} =>
                   /\ DOMAIN q.headers = {"Content-Type", "Authorization"}
                   /\ q.headers["Authorization"] = <<"Bearer ", k>>
            /\ p = "anthropic" =>
                   /\ DOMAIN q.headers = {"Content-Type", "x-api-key", "anthropic-version"}
                   /\ q.headers["x-api-key"] = <<k>>
            /\ p = "gemini" => DOMAIN q.headers = {"Content-Type"}
            /\ p \in {"github", "openai"} =>
                   /\ DOMAIN q.body = {"model", "messages", "max_completion_tokens"}
                   /\ q.body.max_completion_tokens = 4000
            /\ p \in {"anthropic", "cohere", "mistral"} =>
                   /\ DOMAIN q.body = {"model", "messages", "max_tokens"}
                   /\ q.body.max_tokens = 4000
            /\ p # "gemini" => q.body.model = m /\ q.body.messages = list
            /\ p = "gemini" =>
                   q.body = [contents |->
                                <<[parts |-> <<[text |-> list[Len(list)].content]>>]>>]
            /\ p \notin {"github", "openai", "anthropic", "cohere", "mistral", "gemini"} =>
                   q = ShapeRequest("openai", e, k, m, event.messages)

\* C11 witness: a gemini request has been built from a list of three messages;
\* its body carries the text of the third.
C11_Witness ==
    /\ event.kind = "shape"
    /\ event.provider = "gemini"
    /\ Len(event.messages) = 3
    /\ event.request.body.contents[1].parts[1].text = "and then?"

\* The answered request got a success status from the vendor and its JSON.
VendorAnswered ==
    Responded /\ event.req.vendor = "ok" /\ "choices" \in DOMAIN event.req.vendorBody

\* The field of the vendor's JSON that holds the text for the provider
TextField(provider, json) ==
    IF provider = "gemini" THEN json.candidates
    ELSE IF provider = "anthropic" THEN json.content
    ELSE json.choices

\* C12: after a success answer of the vendor, the assistant text is the one under
\* candidates[0].content.parts[0].text for gemini, content[0].text for anthropic
\* and choices[0].message.content for any other provider: it is the message
\* answered and the content of the assistant message stored.  When that field is
\* missing or empty the answer is 500, the request has created no assistant
\* message and the answer carries no messageId.
C12_ExtractedText ==
    VendorAnswered =>
        LET r == event.req
            text == TextField(r.provider, r.vendorBody)
            n == Len(r.created)
        IN  IF text = Undefined \/ text = ""
            THEN /\ r.status = 500
                 /\ \A i \in DOMAIN r.created : r.created[i].role # "assistant"
                 /\ "messageId" \notin DOMAIN r.reply
            ELSE /\ r.status = 200
                 /\ r.reply.message = text
                 /\ n >= 1
                 /\ r.created[n].role = "assistant"
                 /\ r.created[n].content = text
                 /\ r.reply.messageId = r.created[n].id

\* C12 witness: an anthropic turn has been answered 200 with the text found under
\* content, and another has been answered 500 -- here the first.
C12_Witness ==
    /\ VendorAnswered
    /\ event.req.provider = "anthropic"
    /\ event.req.vendorBody.content = "hello"
    /\ event.req.status = 200
    /\ event.req.reply.message = "hello"

----------------------------------------------------------------------------
(* Claims about checkRateLimit: limits that are not positive, and the other keys *)

\* C26: with a limit <= 0, a call is admitted exactly when it opens a window
\* (the key has no entry, or the time is past the entry's resetTime); every later
\* call inside the window is rejected, so each window admits exactly one request:
\* the count of an entry is 1.
C26_OnePerWindow ==
    /\ (last.valid /\ last.limit <= 0) =>
           (last.allowed <=> (~last.hadEntry \/ last.t > last.prevReset))
    /\ \A ip \in DOMAIN rateLimitMap :
           winLimits[ip] \subseteq {0, -1} => rateLimitMap[ip].count = 1

\* C26 witness: at limit -1 a second call inside a window has been rejected, the
\* window being one that a call at the same limit opened after an older window
\* had passed.
C26_Witness ==
    /\ last.valid
    /\ last.limit = -1
    /\ last.hadEntry
    /\ last.t <= last.prevReset
    /\ last.prevReset > Window
    /\ ~last.allowed
    /\ winLimits[last.ip] = {-1}

\* C30: a call of checkRateLimit for key A leaves the entry of every other key
\* as it was and removes no entry: the keys of the map only grow, by A at most;
\* and whether the call is admitted is decided by A's own entry, the time and the
\* limit alone.
C30_OnlyOwnEntry ==
    [][/\ DOMAIN rateLimitMap \subseteq DOMAIN rateLimitMap'
       /\ RateCheckStep =>
            LET a == last'.ip
            IN  /\ DOMAIN rateLimitMap' = DOMAIN rateLimitMap \cup {a}
                /\ \A k \in DOMAIN rateLimitMap :
                       k # a => rateLimitMap'[k] = rateLimitMap[k]
                /\ last'.allowed <=>
                       \/ a \notin DOMAIN rateLimitMap
                       \/ now > rateLimitMap[a].resetTime
                       \/ rateLimitMap[a].count < last'.limit
       /\ ~RateCheckStep => rateLimitMap' = rateLimitMap]_vars

\* C30 witness: a call for ipA has opened a new window for it while ipB's entry,
\* whose window has passed, stands as it was.
C30_Witness ==
    /\ last.valid
    /\ last.ip = "ipA"
    /\ last.hadEntry
    /\ last.allowed
    /\ last.t > last.prevReset
    /\ "ipB" \in DOMAIN rateLimitMap
    /\ rateLimitMap["ipB"].resetTime < now

----------------------------------------------------------------------------
(* Claims about POST /api/chat: the empty list of messages *)

\* Request r is well formed, has an empty list of messages, was admitted by the
\* limiter and names a chat that exists.
EmptyListTurn(r) == r.valid /\ r.messages = <<>> /\ ~r.limited /\ r.chatFound

\* C29: a POST /api/chat with an empty list of messages for a chat that exists
\* passes the validation and is counted by the limiter when it is received (the
\* caller's entry becomes count = 1, resetTime = now + 60 seconds, or has its
\* count raised by one); it is then answered 500, having created no message and
\* started no provider call, and the answer leaves the stored messages and the
\* limiter's map as they were: the count is not given back.
C29_EmptyListAnswered500 ==
    [][/\ \A s \in Slots :
              (reqs[s].pc = "idle" /\ reqs'[s].pc = "getChat" /\ EmptyListTurn(reqs'[s])) =>
                  LET ip == reqs'[s].ip
                      had == ip \in DOMAIN rateLimitMap
                  IN  /\ ip \in DOMAIN rateLimitMap'
                      /\ \/ /\ ~had \/ now > rateLimitMap[ip].resetTime
                            /\ rateLimitMap'[ip] = [count |-> 1, resetTime |-> now + 60000]
                         \/ /\ had
                            /\ now <= rateLimitMap[ip].resetTime
                            /\ rateLimitMap'[ip] =
                                   [count |-> rateLimitMap[ip].count + 1,
                                    resetTime |-> rateLimitMap[ip].resetTime]
       /\ (event'.kind = "response" /\ EmptyListTurn(event'.req)) =>
              /\ event'.req.status = 500
              /\ event'.req.created = <<>>
              /\ ~event'.req.fetched
              /\ messages' = messages
              /\ nextId' = nextId
              /\ rateLimitMap' = rateLimitMap]_vars

\* C29 witness: a request with an empty list for a chat that exists has been
\* answered 500 and is the second request the limiter counted for its sender.
C29_Witness ==
    /\ Responded
    /\ EmptyListTurn(event.req)
    /\ event.req.status = 500
    /\ rateLimitMap[event.req.ip].count = 2

----------------------------------------------------------------------------
(* Claims about the chat records, checked under SpecStore *)

\* C24: a chat record is immutable from its creation to its deletion: no step
\* changes the name or the createdAt stored for a chat id that exists before and
\* after the step; in particular POST /api/chats with an id that exists leaves
\* the record as it was.
C24_ChatImmutable ==
    [][\A i \in DOMAIN chats : \A j \in DOMAIN chats' :
           chats'[j].id = chats[i].id =>
               /\ chats'[j].name = chats[i].name
               /\ chats'[j].createdAt = chats[i].createdAt]_vars

----------------------------------------------------------------------------
(* Claims about concurrent turns, checked under SpecTurns *)

\* C21: every stored message belongs to a chat that exists: a turn whose chat is
\* deleted while it waits for the vendor stores no assistant message for it
\* afterwards, and getMessagesByChatId of a deleted chat's id is empty.
C21_MessagesOwned ==
    /\ \A i \in DOMAIN messages : hasChat(chats, messages[i].chatId)
    /\ \A id \in ChatIds : ~hasChat(chats, id) => getMessagesByChatId(messages, id) = <<>>

\* The messages request r has created are its user message and then its
\* assistant message, as far as it has come (r's last message has role user).
OwnOrder(r) ==
    LET c == r.created
    IN  /\ Len(c) <= 2
        /\ Len(c) >= 1 => UserMessageOf(r, c[1])
        /\ Len(c) = 2 => /\ c[2].role = "assistant"
                         /\ c[2].chatId = r.chatId
                         /\ c[1].id < c[2].id

\* C22: turns on the same chat are not serialized, but each turn stores its own
\* user message before its own assistant message: of every request in progress
\* or just answered whose last message has role user, the messages created are
\* the user message first and the assistant message, with the greater id, second;
\* a request that waits for the vendor or has its answer has stored its user
\* message; and the store keeps the messages in the order of their creation.
C22_OwnUserFirst ==
    /\ \A s \in Slots :
           reqs[s].pc # "idle" =>
               /\ OwnOrder(reqs[s])
               /\ reqs[s].fetched => Len(reqs[s].created) >= 1
    /\ (Responded /\ event.req.lastRole = "user") =>
           /\ OwnOrder(event.req)
           /\ event.req.status = 200 => Len(event.req.created) = 2
    /\ \A i, j \in DOMAIN messages : i < j => messages[i].id < messages[j].id

\* C22 witness: two turns on chat c1 were in progress together and the store
\* holds user1, user2, assistant2, assistant1: the first turn (no model given,
\* so "gpt-5") stored its user message first and its assistant message last.
C22_Witness ==
    /\ Len(messages) = 4
    /\ messages[1].role = "user" /\ messages[1].content = "hi"
    /\ messages[2].role = "user" /\ messages[2].content = "and then?"
    /\ messages[3].role = "assistant" /\ messages[3].model = "m1"
    /\ messages[4].role = "assistant" /\ messages[4].model = "gpt-5"
    /\ \A i \in 1..4 : messages[i].chatId = "c1"

\* The largest element of a non-empty set of numbers
MaxOf(S) == CHOOSE m \in S : \A x \in S : x <= m

\* C27: no update of the limiter is lost under concurrent requests: the count of
\* a key's entry is the number of that key's requests admitted in its window, and
\* the fetch calls started for the key during the window are no more than the
\* requests admitted in it and no more than the largest limit used in it.
C27_NoLostUpdate ==
    \A ip \in DOMAIN rateLimitMap :
        /\ rateLimitMap[ip].count = admitted[ip]
        /\ started[ip] <= admitted[ip]
        /\ started[ip] <= MaxOf(winLimits[ip])

\* C27 witness: in a window opened after an older one had passed, two requests of
\* a client were admitted and both wait for the vendor at once.
C27_Witness ==
    /\ "ipA" \in DOMAIN rateLimitMap
    /\ rateLimitMap["ipA"].resetTime > Window
    /\ rateLimitMap["ipA"].count = 2
    /\ started["ipA"] = 2
    /\ \A s \in Slots : reqs[s].pc = "fetch"

----------------------------------------------------------------------------
(* Claims about the answers of POST /api/chat, checked under SpecPaths *)

\* The phrases found in the text of a vendor's error body
TextPhrases(text) == IF text = "quota exceeded" THEN {"quota"} ELSE {}

\* The provider call of the answered request failed: fetch threw, the vendor
\* answered with a status that is not a success, or its body was not JSON.
ProviderCallFailed ==
    /\ Responded
    /\ event.req.fetched
    /\ \/ event.req.vendor \in {"threw", "status"}
       \/ event.req.thrown # {}

\* C23: when the provider call of a turn fails the answer is 429 if the vendor's
\* error mentions quota or rate limit, 401 if it mentions auth or unauthorized,
\* and 500 otherwise, and no assistant message is stored.
C23_StatusByPhrase ==
    ProviderCallFailed =>
        LET r == event.req
            phrases == IF r.vendor = "status" THEN TextPhrases(r.vendorBody.text)
                       ELSE r.thrown
        IN  /\ r.status = IF "quota" \in phrases \/ "rate limit" \in phrases THEN 429
                          ELSE IF "auth" \in phrases \/ "unauthorized" \in phrases THEN 401
                          ELSE 500
            /\ \A i \in DOMAIN r.created : r.created[i].role # "assistant"

InFlight(s) == reqs[s].pc # "idle"

\* The step answers the request of slot s.
Answers(s) == event'.kind = "response" /\ event'.slot = s

\* C25: every POST /api/chat request gets exactly one answer.  A request that is
\* received is answered in the same step or is in progress after it; a request in
\* progress leaves its slot only by a step that answers it; a step answers only a
\* request that was in progress or is received in that step, with an HTTP status,
\* and the request is not in progress afterwards, so that it is not answered
\* again.  And under the fairness of the event loop a request in progress is
\* answered in the end: neither a failure of the vendor call nor an exception
\* leaves it without an answer.
C25_OneResponse ==
    /\ [][\A s \in Serial :
              /\ (nreqs' = nreqs + 1) => (~InFlight(s) /\ (Answers(s) \/ InFlight(s)'))
              /\ (InFlight(s) /\ ~InFlight(s)') => Answers(s)
              /\ Answers(s) =>
                     /\ ~InFlight(s)'
                     /\ InFlight(s) \/ nreqs' = nreqs + 1
                     /\ event'.req.status \in {200, 400, 401, 404, 429, 500}]_vars
    /\ \A s \in Serial : InFlight(s) ~> ~InFlight(s)

\* C25 witness: the second request received has been answered from the catch
\* block, after the reading of the vendor's body threw.
C25_Witness ==
    /\ Responded
    /\ nreqs = 2
    /\ event.req.vendor = "ok"
    /\ event.req.thrown = NotJson
    /\ event.req.status = 500

====
